---- MODULE Spec2Model ----
(***************************************************************************)
(* Model of package md (inloco/markdown): Marshal, the recursive encoder   *)
(* of Go values into Slack Markdown, and obfuscate, its redaction helper.  *)
(*                                                                         *)
(* A Go string / []byte is a sequence of bytes (integers 0..255).  A Go    *)
(* value is a record that carries what reflect reports about it: its kind, *)
(* whether its dynamic type implements Marshaler (and then what its        *)
(* MarshalMarkdown returns), whether the type is a named (defined) type,   *)
(* and the payload of its kind.                                            *)
(***************************************************************************)
EXTENDS Integers, Sequences, FiniteSets, TLC

VARIABLES fn, v, str, pc, res, ostr

vars == <<fn, v, str, pc, res, ostr>>

----------------------------------------------------------------------------
(* Bounds of the model. *)

\* how many times a leaf value is wrapped (in a struct field or a pointer) in the
\* Marshal inputs
MaxDepth == 2
\* length, in characters, of the strings given to obfuscate
MaxLen == 6

----------------------------------------------------------------------------
(* Bytes of the literals the code writes. *)

Star == 42
Tab == 9
NL == 10
Dash == 45
Space == 32
Colon == 58

tagOmitField == "-"
tagObfuscateField == "obfuscate"

\* the error value nil
NoErr == "nil"

Null == <<110, 117, 108, 108>>
True == <<116, 114, 117, 101>>
False == <<102, 97, 108, 115, 101>>

----------------------------------------------------------------------------
(* strings.Repeat, strings.Join, fmt's %v of the scalar kinds. *)

RECURSIVE Repeat(_, _)
Repeat(b, n) == IF n <= 0 THEN <<>> ELSE <<b>> \o Repeat(b, n - 1)

RECURSIVE Join(_, _)
Join(lines, sep) ==
    IF Len(lines) = 0 THEN <<>>
    ELSE IF Len(lines) = 1 THEN lines[1]
    ELSE lines[1] \o <<sep>> \o Join(Tail(lines), sep)

RECURSIVE Digits(_)
Digits(n) == IF n < 10 THEN <<48 + n>> ELSE Digits(n \div 10) \o <<48 + (n % 10)>>

FormatInt(n) == IF n < 0 THEN <<Dash>> \o Digits(-n) ELSE Digits(n)

FormatBool(b) == IF b THEN True ELSE False

\* fmt.Sprintf("%v", v) for the kinds that reach marshal's default case
Sprintf(val) == IF val.kind = "int" THEN FormatInt(val.int) ELSE FormatBool(val.bool)

----------------------------------------------------------------------------
(* Results.  trace is the history of marshal calls, in call order: each    *)
(* entry holds the value, the options it was called with, the path of      *)
(* struct fields above it, and what the call returned.                     *)

Ret(bytes, err, trace) == [bytes |-> bytes, err |-> err, panic |-> FALSE, trace |-> trace]

Panic(trace) == [bytes |-> <<>>, err |-> NoErr, panic |-> TRUE, trace |-> trace]

Entry(val, opts, path, r) ==
    [v |-> val, opts |-> opts, path |-> path,
     bytes |-> r.bytes, err |-> r.err, panic |-> r.panic]

----------------------------------------------------------------------------
(* The encoder. *)

withIncrementedIndentLevelKeepsLevel(o) == o

withIncrementedIndentLevelDropsFlag(o) ==
    [indentLevel |-> o.indentLevel + 1, obfuscate |-> FALSE]

withIncrementedIndentLevel(o) == [o EXCEPT !.indentLevel = o.indentLevel + 1]

obfuscate(s) ==
    LET length == Len(s)
    IN  IF length <= 4 THEN s
        ELSE Repeat(Star, length - 4) \o SubSeq(s, length - 4 + 1, length)

\* v.(string) holds only when the dynamic type is string itself
marshalStr(val, opts) ==
    IF val.named THEN Panic(<<>>)
    ELSE Ret(IF opts.obfuscate THEN obfuscate(val.str) ELSE val.str, NoErr, <<>>)

applyIndentation(lines, level) ==
    LET indented == [i \in 1..Len(lines) |-> Repeat(Tab, level) \o lines[i]]
    IN  IF Len(lines) > 0 /\ level > 0
        THEN [indented EXCEPT ![1] = <<NL>> \o indented[1]]
        ELSE indented

\* fmt.Sprintf("- **%s**: %s", name, text)
FieldLine(name, text) ==
    <<Dash, Space, Star, Star>> \o name \o <<Star, Star, Colon, Space>> \o text

\* reflect.Value.CanInterface: the field was not reached through an unexported name
CanInterface(f) == f.name[1] \in 65..90

innerOptsOf(f, opts) ==
    IF f.tag = tagObfuscateField
    THEN [withIncrementedIndentLevel(opts) EXCEPT !.obfuscate = TRUE]
    ELSE withIncrementedIndentLevel(opts)

fieldStepOmitFirst(f, r, lines) ==
    IF f.tag = tagOmitField THEN [stop |-> FALSE, err |-> NoErr, lines |-> lines]
    ELSE IF r.err # NoErr THEN [stop |-> TRUE, err |-> r.err, lines |-> lines]
    ELSE [stop |-> FALSE, err |-> NoErr, lines |-> Append(lines, FieldLine(f.name, r.bytes))]

fieldStepKeepsOmitted(f, r, lines) ==
    IF r.err # NoErr THEN [stop |-> TRUE, err |-> r.err, lines |-> lines]
    ELSE [stop |-> FALSE, err |-> NoErr, lines |-> Append(lines, FieldLine(f.name, r.bytes))]

\* the loop body of marshalStruct once the field's value is encoded
fieldStep(f, r, lines) ==
    IF r.err # NoErr THEN [stop |-> TRUE, err |-> r.err, lines |-> lines]
    ELSE IF f.tag = tagOmitField THEN [stop |-> FALSE, err |-> NoErr, lines |-> lines]
    ELSE [stop |-> FALSE, err |-> NoErr, lines |-> Append(lines, FieldLine(f.name, r.bytes))]

RECURSIVE marshal(_, _, _)
RECURSIVE marshalFields(_, _, _, _, _, _)

\* the for loop of marshalStruct, from field i on
marshalFields(val, opts, path, i, lines, trace) ==
    IF i > Len(val.fields)
    THEN Ret(Join(applyIndentation(lines, opts.indentLevel), NL), NoErr, trace)
    ELSE LET f == val.fields[i]
         IN  IF ~CanInterface(f)
             THEN marshalFields(val, opts, path, i + 1, lines, trace)
             ELSE LET r == marshal(f.val, innerOptsOf(f, opts),
                                   Append(path, [idx |-> i, tag |-> f.tag]))
                      s == fieldStep(f, r, lines)
                  IN  IF r.panic THEN Panic(trace \o r.trace)
                      ELSE IF s.stop THEN Ret(<<>>, s.err, trace \o r.trace)
                      ELSE marshalFields(val, opts, path, i + 1, s.lines,
                                         trace \o r.trace)

marshalStruct(val, opts, path) == marshalFields(val, opts, path, 1, <<>>, <<>>)

marshalPrtNilDefault(val, opts, path) ==
    IF Len(val.elem) = 0 THEN Ret(<<60, 110, 105, 108, 62>>, NoErr, <<>>)
    ELSE marshal(val.elem[1], opts, path)

marshalPrt(val, opts, path) ==
    IF Len(val.elem) = 0 THEN Ret(Null, NoErr, <<>>)
    ELSE marshal(val.elem[1], opts, path)

marshalKindFirst(val, opts, path) ==
    IF val.kind = "nil" THEN Panic(<<>>)
    ELSE IF val.kind = "struct" THEN marshalStruct(val, opts, path)
    ELSE IF val.impl THEN Ret(val.mm.bytes, val.mm.err, <<>>)
    ELSE IF val.kind = "string" THEN marshalStr(val, opts)
    ELSE IF val.kind = "ptr" THEN marshalPrt(val, opts, path)
    ELSE Ret(Sprintf(val), NoErr, <<>>)

\* the body of marshal: reflect.TypeOf(nil) is nil, and t.Implements on it panics
marshalBody(val, opts, path) ==
    IF val.kind = "nil" THEN Panic(<<>>)
    ELSE IF val.impl THEN Ret(val.mm.bytes, val.mm.err, <<>>)
    ELSE IF val.kind = "string" THEN marshalStr(val, opts)
    ELSE IF val.kind = "struct" THEN marshalStruct(val, opts, path)
    ELSE IF val.kind = "ptr" THEN marshalPrt(val, opts, path)
    ELSE Ret(Sprintf(val), NoErr, <<>>)

marshal(val, opts, path) ==
    LET r == marshalBody(val, opts, path)
    IN  [r EXCEPT !.trace = <<Entry(val, opts, path, r)>> \o r.trace]

Marshal(val) == marshal(val, [indentLevel |-> 0, obfuscate |-> FALSE], <<>>)

----------------------------------------------------------------------------
(* Go values, as reflect sees them. *)

NoMM == [bytes |-> <<>>, err |-> NoErr]

Val(kind, impl, named, mm, s, n, b, elem, fields) ==
    [kind |-> kind, impl |-> impl, named |-> named, mm |-> mm,
     str |-> s, int |-> n, bool |-> b, elem |-> elem, fields |-> fields]

\* the untyped nil: an interface value holding nothing
NilV == Val("nil", FALSE, FALSE, NoMM, <<>>, 0, FALSE, <<>>, <<>>)
StrV(s) == Val("string", FALSE, FALSE, NoMM, s, 0, FALSE, <<>>, <<>>)
\* a value of a defined type whose underlying type is string: type Name string
NamedStrV(s) == Val("string", FALSE, TRUE, NoMM, s, 0, FALSE, <<>>, <<>>)
IntV(n) == Val("int", FALSE, FALSE, NoMM, <<>>, n, FALSE, <<>>, <<>>)
BoolV(b) == Val("bool", FALSE, FALSE, NoMM, <<>>, 0, b, <<>>, <<>>)
NilPtrV == Val("ptr", FALSE, FALSE, NoMM, <<>>, 0, FALSE, <<>>, <<>>)
PtrV(x) == Val("ptr", FALSE, FALSE, NoMM, <<>>, 0, FALSE, <<x>>, <<>>)
StructV(fields) == Val("struct", FALSE, TRUE, NoMM, <<>>, 0, FALSE, <<>>, fields)
\* the same value, of a type that implements Marshaler and returns (bytes, err)
Impl(x, bytes, err) == [x EXCEPT !.impl = TRUE, !.named = TRUE,
                                 !.mm = [bytes |-> bytes, err |-> err]]

Field(name, t, x) == [name |-> name, tag |-> t, val |-> x]

NameA == <<65>>
NameB == <<66>>
NameLowerC == <<99>>

Abcdef == <<97, 98, 99, 100, 101, 102>>
MultiLine == <<120, 10, 121>>
LongMultiLine == <<109, 10, 110, 111, 112, 113, 114>>

\* a Marshaler that fails as the second field of a struct
FailingSibling == Impl(IntV(7), <<>>, "err3")

Leaves ==
    { NilV,
      StrV(Abcdef),
      StrV(MultiLine),
      NamedStrV(Abcdef),
      IntV(123456),
      BoolV(FALSE),
      NilPtrV,
      StructV(<<>>),
      StructV(<<Field(NameA, "", StrV(MultiLine)), Field(NameB, "", StrV(Abcdef))>>),
      \* a nil *T whose method MarshalMarkdown has a pointer receiver
      Impl(NilPtrV, <<77>>, NoErr),
      \* a struct type with annotated fields that encodes itself, on several lines
      Impl(StructV(<<Field(NameA, tagObfuscateField, StrV(Abcdef)),
                     Field(NameB, tagOmitField, StrV(Abcdef))>>),
           LongMultiLine, NoErr),
      Impl(StrV(Abcdef), <<>>, "err1"),
      \* a Marshaler that returns both bytes and an error
      Impl(IntV(7), <<80>>, "err2") }

Wrap(x) ==
    { PtrV(x),
      StructV(<<Field(NameA, "", x)>>),
      StructV(<<Field(NameA, tagOmitField, x)>>),
      StructV(<<Field(NameA, tagObfuscateField, x)>>),
      StructV(<<Field(NameA, tagObfuscateField, PtrV(x)), Field(NameB, "", StrV(Abcdef))>>),
      StructV(<<Field(NameB, tagObfuscateField, StrV(Abcdef)), Field(NameA, "", x)>>),
      StructV(<<Field(NameLowerC, "", StrV(Abcdef)), Field(NameA, "", PtrV(x))>>),
      StructV(<<Field(NameA, tagOmitField, x), Field(NameB, "", FailingSibling)>>),
      StructV(<<Field(NameA, "", x), Field(NameB, "", NilPtrV)>>) }

RECURSIVE Values(_)
Values(d) ==
    IF d = 0 THEN Leaves
    ELSE LET below == Values(d - 1)
         IN  below \cup UNION { Wrap(x) : x \in below }

\* the strings of at most n characters over 'a', 'b' and the two-byte 'e' acute
Chars == { <<97>>, <<98>>, <<195, 169>> }

RECURSIVE Strings(_)
Strings(n) ==
    IF n = 0 THEN { <<>> }
    ELSE LET shorter == Strings(n - 1)
         IN  shorter \cup { c \o s : c \in Chars, s \in shorter }

----------------------------------------------------------------------------
(* The state machine: one call of Marshal or of obfuscate on a chosen input. *)

NoRes == Ret(<<>>, NoErr, <<>>)

Init ==
    /\ pc = "call"
    /\ res = NoRes
    /\ ostr = <<>>
    /\ \/ fn = "Marshal" /\ v \in Values(MaxDepth) /\ str = <<>>
       \/ fn = "obfuscate" /\ str \in Strings(MaxLen) /\ v = NilV

CallMarshal ==
    /\ pc = "call"
    /\ fn = "Marshal"
    /\ res' = Marshal(v)
    /\ pc' = "done"
    /\ UNCHANGED <<fn, v, str, ostr>>

CallObfuscate ==
    /\ pc = "call"
    /\ fn = "obfuscate"
    /\ ostr' = obfuscate(str)
    /\ pc' = "done"
    /\ UNCHANGED <<fn, v, str, res>>

Next == CallMarshal \/ CallObfuscate

Spec == Init /\ [][Next]_vars

----------------------------------------------------------------------------
(* What the properties are stated with. *)

Done == pc = "done" /\ fn = "Marshal"

Trace == res.trace

IsPrefix(p, q) == Len(p) <= Len(q) /\ SubSeq(q, 1, Len(p)) = p

\* the entry succeeded: it returned bytes and no error
Succeeded(e) == ~e.panic /\ e.err = NoErr

IsStructEntry(e) == e.v.kind = "struct" /\ ~e.v.impl

IsNilPtr(x) == x.kind = "ptr" /\ Len(x.elem) = 0

UnderObfuscate(path) == \E i \in DOMAIN path : path[i].tag = tagObfuscateField

\* the fields of a struct that get a line, in declaration order
RECURSIVE EmittedFrom(_, _)
EmittedFrom(fields, i) ==
    IF i > Len(fields) THEN <<>>
    ELSE IF fields[i].name[1] \in 65..90 /\ fields[i].tag # tagOmitField
         THEN <<i>> \o EmittedFrom(fields, i + 1)
         ELSE EmittedFrom(fields, i + 1)

Emitted(x) == EmittedFrom(x.fields, 1)

\* the index in the trace of the call that encoded field i of the struct of entry k
ChildIndex(k, i) ==
    LET want == Append(Trace[k].path, [idx |-> i, tag |-> Trace[k].v.fields[i].tag])
    IN  CHOOSE j \in (k + 1)..Len(Trace) :
            /\ Trace[j].path = want
            /\ \A h \in (k + 1)..(j - 1) : Trace[h].path # want

\* what one field line is to look like: level tabs, then - **Name**: text
ExpectedLine(level, name, text) ==
    [i \in 1..level |-> 9] \o <<45, 32, 42, 42>> \o name \o <<42, 42, 58, 32>> \o text

RECURSIVE Split(_, _)
Split(b, sep) ==
    IF \A i \in DOMAIN b : b[i] # sep THEN <<b>>
    ELSE LET i == CHOOSE x \in DOMAIN b : b[x] = sep /\ \A y \in 1..(x - 1) : b[y] # sep
         IN  <<SubSeq(b, 1, i - 1)>> \o Split(SubSeq(b, i + 1, Len(b)), sep)

IsLineOf(line, b) == \E i \in DOMAIN Split(b, 10) : Split(b, 10)[i] = line

\* the line starts with exactly d tab characters
HasExactlyTabs(line, d) ==
    /\ Len(line) >= d
    /\ \A i \in 1..d : line[i] = 9
    /\ (Len(line) > d => line[d + 1] # 9)

\* the characters (runes) of a string, as Go's range over a string decodes them:
\* an ASCII byte, a two-byte sequence, or utf8.RuneError (65533) for a byte that
\* starts none
RECURSIVE Runes(_)
Runes(b) ==
    IF Len(b) = 0 THEN <<>>
    ELSE IF b[1] < 128 THEN <<b[1]>> \o Runes(Tail(b))
    ELSE IF b[1] \in 194..223 /\ Len(b) >= 2 /\ b[2] \in 128..191
         THEN <<(b[1] - 192) * 64 + (b[2] - 128)>> \o Runes(Tail(Tail(b)))
    ELSE <<65533>> \o Runes(Tail(b))

----------------------------------------------------------------------------
\* C1: for every string s of L characters, obfuscate(s) = s when L <= 4; when
\* L > 4 the result has L characters, the first L-4 are '*' and the last 4 are
\* the last 4 characters of s.  Violated: obfuscate counts and cuts bytes.
ObfuscateByCharacters ==
    (pc = "done" /\ fn = "obfuscate") =>
        LET in == Runes(str)
            out == Runes(ostr)
            L == Len(in)
        IN  /\ L <= 4 => ostr = str
            /\ L > 4 => /\ Len(out) = L
                        /\ \A i \in 1..(L - 4) : out[i] = 42
                        /\ SubSeq(out, L - 3, L) = SubSeq(in, L - 3, L)

\* C2: the text emitted for a visible field annotated obfuscate shows at most its
\* last 4 characters, whatever the kind of the value; stated here for the integer
\* and boolean kinds of the doc comment's example.  Violated: only strings are masked.
ObfuscateFieldMasksAnyKind ==
    Done =>
        \A k \in DOMAIN Trace :
            LET e == Trace[k]
            IN  (/\ e.path # <<>>
                 /\ e.path[Len(e.path)].tag = tagObfuscateField
                 /\ ~e.v.impl
                 /\ e.v.kind \in {"int", "bool"}
                 /\ Succeeded(e))
                => \A i \in 1..(Len(e.bytes) - 4) : e.bytes[i] = 42

\* C3: Marshal is total: for every input it returns bytes or an error and never
\* panics.  Violated: an untyped nil, a nil interface in a field, a named string type.
MarshalNeverPanics == Done => ~res.panic

\* C7: whenever Marshal returns a non-nil error the bytes it returns are empty.
\* Violated: a top-level Marshaler's bytes are returned with its error.
FailureReturnsNoBytes == (Done /\ res.err # NoErr) => res.bytes = <<>>

MarshalerOwnsItsOutput ==
    Done =>
        \A k \in DOMAIN Trace :
            LET e == Trace[k]
            IN  e.v.impl =>
                    /\ ~e.panic
                    /\ e.bytes = e.v.mm.bytes
                    /\ e.err = e.v.mm.err
                    /\ \A j \in (k + 1)..Len(Trace) : ~IsPrefix(e.path, Trace[j].path)

\* a struct with annotated fields that is a Marshaler was encoded below a field
\* annotated obfuscate, at indentation level 2 or more
NestedMarshalerStructEncoded ==
    /\ Done
    /\ \E k \in DOMAIN Trace :
           /\ Trace[k].v.impl
           /\ Trace[k].v.kind = "struct"
           /\ Len(Trace[k].v.fields) > 0
           /\ Trace[k].opts.obfuscate
           /\ Trace[k].opts.indentLevel >= 2
           /\ Len(Trace[k].bytes) > 4

ExpectedLines(k) ==
    LET e == Trace[k]
        em == Emitted(e.v)
    IN  [n \in DOMAIN em |->
            ExpectedLine(e.opts.indentLevel, e.v.fields[em[n]].name,
                         Trace[ChildIndex(k, em[n])].bytes)]

RECURSIVE JoinedByNewlines(_)
JoinedByNewlines(lines) ==
    IF Len(lines) = 0 THEN <<>>
    ELSE IF Len(lines) = 1 THEN lines[1]
    ELSE lines[1] \o <<10>> \o JoinedByNewlines(Tail(lines))

\* C8: a successfully encoded struct at indentation level n consists of one line
\* - **Name**: <encoded value> per exported field not annotated -, in declaration
\* order, each prefixed with n tabs, joined by single newlines, nothing after the
\* last line; unexported and omitted fields give no line; with no emitted field the
\* text is empty at every level.  (The newline that opens a nested block, C9's
\* subject, precedes the lines when n > 0.)
StructEncodesFieldLines ==
    Done =>
        \A k \in DOMAIN Trace :
            LET e == Trace[k]
            IN  (IsStructEntry(e) /\ Succeeded(e)) =>
                    LET lines == ExpectedLines(k)
                    IN  /\ Len(lines) = 0 => e.bytes = <<>>
                        /\ (Len(lines) > 0 /\ e.opts.indentLevel = 0)
                           => e.bytes = JoinedByNewlines(lines)
                        /\ (Len(lines) > 0 /\ e.opts.indentLevel > 0)
                           => Tail(e.bytes) = JoinedByNewlines(lines)

\* a struct with an unexported and an emitted field holds, behind a pointer, a
\* nested struct that emitted a line, and a nested struct without emitted field
\* was encoded as well
NestedStructLinesEncoded ==
    /\ Done
    /\ Succeeded(res)
    /\ v.kind = "struct"
    /\ Len(v.fields) = 2
    /\ Len(Emitted(v)) = 1
    /\ \E k \in DOMAIN Trace :
           /\ IsStructEntry(Trace[k])
           /\ Trace[k].opts.indentLevel >= 1
           /\ Len(Emitted(Trace[k].v)) >= 1
    /\ \E k \in DOMAIN Trace :
           /\ IsStructEntry(Trace[k])
           /\ Trace[k].opts.indentLevel >= 1
           /\ Len(Trace[k].v.fields) >= 1
           /\ Len(Emitted(Trace[k].v)) = 0
           /\ Trace[k].bytes = <<>>

\* the emitted field values of the struct are no nested blocks: no struct that is
\* traversed, directly or behind pointers
RECURSIVE HoldsNoBlock(_)
HoldsNoBlock(x) ==
    IF x.impl THEN TRUE
    ELSE IF x.kind = "struct" THEN FALSE
    ELSE IF x.kind = "ptr" /\ Len(x.elem) > 0 THEN HoldsNoBlock(x.elem[1])
    ELSE TRUE

\* C9 as stated: the block of a struct nested at depth d > 0 with an emitted field
\* begins with a newline and every output line of it is prefixed with exactly d
\* tabs, also when a field value is a multi-line string or a custom encoder's
\* multi-line output (stated for the blocks that hold no deeper block).  Violated:
\* only the first line of each field is indented.
EveryLineOfNestedBlockIndented ==
    Done =>
        \A k \in DOMAIN Trace :
            LET e == Trace[k]
                em == Emitted(e.v)
            IN  (/\ IsStructEntry(e)
                 /\ Succeeded(e)
                 /\ Len(e.path) > 0
                 /\ Len(em) > 0
                 /\ \A n \in DOMAIN em : HoldsNoBlock(e.v.fields[em[n]].val))
                => /\ e.bytes[1] = 10
                   /\ \A i \in DOMAIN Split(Tail(e.bytes), 10) :
                          HasExactlyTabs(Split(Tail(e.bytes), 10)[i], Len(e.path))

\* where the line of the n-th emitted field starts in the block of entry k
RECURSIVE LineStart(_, _)
LineStart(k, n) ==
    IF n = 1 THEN 2
    ELSE LET f == Trace[k].v.fields[Emitted(Trace[k].v)[n - 1]]
             text == Trace[ChildIndex(k, Emitted(Trace[k].v)[n - 1])].bytes
         IN  LineStart(k, n - 1) + Len(Trace[k].path) + 4 + Len(f.name) + 4 + Len(text) + 1

\* C9 as amended: the block of a struct nested at depth d > 0 (d enclosing struct
\* fields; pointers do not count) with an emitted field begins with a newline,
\* and the line of each emitted field starts with exactly d tabs followed by
\* - **Name**: ; the further lines of a field's own text are not indented by it.
FieldLinesOfNestedBlockIndented ==
    Done =>
        \A k \in DOMAIN Trace :
            LET e == Trace[k]
                em == Emitted(e.v)
                d == Len(e.path)
            IN  (IsStructEntry(e) /\ Succeeded(e) /\ d > 0 /\ Len(em) > 0) =>
                    /\ e.bytes[1] = 10
                    /\ \A n \in DOMAIN em :
                           LET from == LineStart(k, n)
                               head == ExpectedLine(d, e.v.fields[em[n]].name, <<>>)
                           IN  /\ n > 1 => e.bytes[from - 1] = 10
                               /\ Len(e.bytes) >= from + Len(head) - 1
                               /\ SubSeq(e.bytes, from, from + Len(head) - 1) = head

\* a struct reached through a pointer at depth 2 emitted a field whose text has
\* several lines
DeepBlockWithMultiLineField ==
    /\ Done
    /\ Succeeded(res)
    /\ \E k \in DOMAIN Trace :
           /\ IsStructEntry(Trace[k])
           /\ Len(Trace[k].path) = 2
           /\ k > 1
           /\ Trace[k - 1].v.kind = "ptr"
           /\ Trace[k - 1].path = Trace[k].path
           /\ \E n \in DOMAIN Emitted(Trace[k].v) :
                  \E i \in DOMAIN Trace[ChildIndex(k, Emitted(Trace[k].v)[n])].bytes :
                      Trace[ChildIndex(k, Emitted(Trace[k].v)[n])].bytes[i] = 10

\* C10: the obfuscate flag of a call is set exactly when some enclosing field, on
\* the path of struct fields and pointers down to the value, is annotated
\* obfuscate: a string is emitted masked if and only if it is under such a field,
\* a sibling of an annotated field is not, and the flag is not cleared deeper.
ObfuscateScopedToSubtree ==
    Done =>
        \A k \in DOMAIN Trace :
            LET e == Trace[k]
            IN  /\ e.opts.obfuscate = UnderObfuscate(e.path)
                /\ (e.v.kind = "string" /\ ~e.v.impl /\ ~e.panic)
                   => e.bytes = IF UnderObfuscate(e.path)
                                THEN [i \in 1..Len(e.v.str) |->
                                         IF i <= Len(e.v.str) - 4 THEN 42 ELSE e.v.str[i]]
                                ELSE e.v.str

\* a string two fields below a field annotated obfuscate, behind a pointer, came
\* out masked while the string of the sibling field came out as it is
MaskedBelowAndSiblingPlain ==
    /\ Done
    /\ Succeeded(res)
    /\ \E k \in DOMAIN Trace :
           /\ Trace[k].v.kind = "string"
           /\ Len(Trace[k].path) = 2
           /\ Trace[k].path[1].tag = tagObfuscateField
           /\ Trace[k].path[2].tag # tagObfuscateField
           /\ Trace[k].bytes # Trace[k].v.str
    /\ \E k \in DOMAIN Trace :
           /\ Trace[k].v.kind = "string"
           /\ Len(Trace[k].path) = 1
           /\ Len(Trace[k].v.str) > 4
           /\ Trace[k].bytes = Trace[k].v.str

====
